---- MODULE Spec2Model ----
(***************************************************************************)
(* Model of lcrespilho/playwright-utils, src/src/index.ts: the URL         *)
(* normaliser (flatRequestUrl, flatResponseUrl) and the pattern matchers   *)
(* (requestMatcher, responseMatcher, requestMatcherCb, responseMatcherCb), *)
(* the event waiters (waitForWebToServer, waitForFacebookPixel) and the    *)
(* session helpers (saveSessionCookies, restoreSessionCookies).            *)
(*                                                                         *)
(* A JavaScript string is modelled as a sequence of characters; each       *)
(* character is a one-token TLA+ string.  CR and LF stand for "\r" and     *)
(* "\n".  null (an absent POST body) is the value NULL.                    *)
(***************************************************************************)
EXTENDS FiniteSets, Integers, Sequences, TLC

\* ------------------------------------------------------------ bounds

\* Longest request URL of SpecFlat.
MaxUrlLen == 3
\* Longest POST body of SpecFlat.
MaxBodyLen == 4
\* Longest request URL of SpecMatch.
MaxMatchUrlLen == 2
\* Longest POST body of SpecMatch.
MaxMatchBodyLen == 2
\* Longest pattern source (literal string, or literal regular expression).
MaxPatLen == 2
\* Longest value of a query parameter of an observed tracking request.
MaxValLen == 2
\* Last instant (in ms) the clock of the waiters reaches.
MaxClock == 2
\* Largest value of the session cookie of a browser context.
MaxCookieVal == 2
\* Largest scroll height (in units of 20 px) a page grows to.
MaxScrollHeight == 8

\* ------------------------------------------------------- characters

CR == "CR"
LF == "LF"
AMP == "&"
QM == "?"
\* null: a value that is no string (no sequence of characters equals it).
NULL == <<"null">>
\* No value yet: the function has not been called.
None == <<"none">>

\* Characters of a URL as Request.url() serialises it (no raw line break).
UrlChars == {"a", QM, AMP}
\* Characters of a POST body.
BodyChars == {"a", AMP, CR, LF}
\* Characters of a POST body and of a pattern source in SpecMatch.
MatchChars == {"a", AMP}

SeqsUpTo(A, n) == UNION {[1..k -> A] : k \in 0..n}

\* A Playwright Request, as far as the library reads it: url() and postData().
Request(url, postData) == [url |-> url, postData |-> postData]

Urls(n) == {<<"a">> \o t : t \in SeqsUpTo(UrlChars, n - 1)}

\* Requests of SpecFlat: every URL with an absent, an empty or a non-empty body.
Requests ==
    {Request(u, b) : u \in Urls(MaxUrlLen),
                     b \in {NULL} \cup SeqsUpTo(BodyChars, MaxBodyLen)}

\* Requests of SpecMatch.
MatchRequests ==
    {Request(u, b) : u \in Urls(MaxMatchUrlLen),
                     b \in {NULL} \cup SeqsUpTo(MatchChars, MaxMatchBodyLen)}

\* ------------------------------------------------- string primitives

\* String.prototype.indexOf(p, from) >= 0 at 0-based position i.
MatchAt(p, s, i) ==
    /\ i + Len(p) <= Len(s)
    /\ \A k \in 1..Len(p) : s[i + k] = p[k]

RECURSIVE IndexOfFrom(_, _, _)
\* 0-based index of the first occurrence of p in s at or after i, or -1
\* (modelled as Len(s) + 1, which no index equals).
IndexOfFrom(s, p, i) ==
    IF i > Len(s) THEN Len(s) + 1
    ELSE IF MatchAt(p, s, i) THEN i
    ELSE IndexOfFrom(s, p, i + 1)

\* String.prototype.includes(p).
JsIncludes(s, p) == IndexOfFrom(s, p, 0) <= Len(s)

RECURSIVE ReplaceLineBreaks_LfOnly(_)
\* Mutant: only LF is replaced (the regular expression /\n/g).
ReplaceLineBreaks_LfOnly(s) ==
    IF s = <<>> THEN <<>>
    ELSE IF s[1] = LF THEN <<AMP>> \o ReplaceLineBreaks_LfOnly(Tail(s))
    ELSE <<s[1]>> \o ReplaceLineBreaks_LfOnly(Tail(s))

RECURSIVE ReplaceLineBreaks(_)
\* .replace(/\r\n|\n|\r/g, '&'): leftmost match, alternatives in order.
ReplaceLineBreaks(s) ==
    IF s = <<>> THEN <<>>
    ELSE IF Len(s) >= 2 /\ s[1] = CR /\ s[2] = LF
         THEN <<AMP>> \o ReplaceLineBreaks(Tail(Tail(s)))
    ELSE IF s[1] = LF \/ s[1] = CR
         THEN <<AMP>> \o ReplaceLineBreaks(Tail(s))
    ELSE <<s[1]>> \o ReplaceLineBreaks(Tail(s))

RECURSIVE CollapseAmpAmp(_)
\* .replace(/&&/g, '&'): one left-to-right pass over non-overlapping matches;
\* the replacement text is not scanned again.
CollapseAmpAmp(s) ==
    IF s = <<>> THEN <<>>
    ELSE IF Len(s) >= 2 /\ s[1] = AMP /\ s[2] = AMP
         THEN <<AMP>> \o CollapseAmpAmp(Tail(Tail(s)))
    ELSE <<s[1]>> \o CollapseAmpAmp(Tail(s))

\* .replace(/&$/g, ''): without the m flag $ matches at the end of input only.
StripTrailingAmp(s) ==
    IF s # <<>> /\ s[Len(s)] = AMP THEN SubSeq(s, 1, Len(s) - 1) ELSE s

\* req.postData() || ''
BodyOf(req) == IF req.postData = NULL THEN <<>> ELSE req.postData

\* Mutant: the body is always appended with '?'.
Separator_AlwaysQuestionMark(url) == QM

\* url.includes('?') ? '&' : '?'
Separator(url) == IF JsIncludes(url, <<QM>>) THEN AMP ELSE QM

\* `${url}${url.includes('?') ? '&' : '?'}${body}`
FlatUrl(url, body) == url \o <<Separator(url)>> \o body

\* Mutant: the early return for an empty body is missing.
flatRequestUrl_NoEarlyReturn(req) ==
    StripTrailingAmp(CollapseAmpAmp(ReplaceLineBreaks(
        IF BodyOf(req) = <<>> THEN req.url ELSE FlatUrl(req.url, BodyOf(req)))))

flatRequestUrl(req) ==
    IF BodyOf(req) = <<>> THEN req.url
    ELSE StripTrailingAmp(CollapseAmpAmp(ReplaceLineBreaks(
             FlatUrl(req.url, BodyOf(req)))))

\* A Playwright Response, as far as the library reads it: request().
Response(request) == [request |-> request]

flatResponseUrl(res) == flatRequestUrl(res.request)

\* ------------------------------------------------------------ patterns

\* A literal-string pattern.
StringPattern(source) ==
    [kind |-> "string", source |-> source,
     global |-> FALSE, sticky |-> FALSE, lastIndex |-> 0]

\* A RegExp object whose source is a literal (no metacharacter), with its
\* g and y flags and its mutable lastIndex property.
RegExpPattern(source, global, sticky, lastIndex) ==
    [kind |-> "regex", source |-> source,
     global |-> global, sticky |-> sticky, lastIndex |-> lastIndex]

\* The patterns a caller hands to the matchers: a fresh RegExp has lastIndex 0.
Patterns ==
    {StringPattern(src) : src \in SeqsUpTo(MatchChars, MaxPatLen)}
    \cup {RegExpPattern(src, g, y, 0) :
              src \in SeqsUpTo(MatchChars, MaxPatLen), g \in BOOLEAN, y \in BOOLEAN}

RECURSIVE RegExpExecFrom(_, _, _)
\* The match loop of RegExp.prototype.test (RegExpBuiltinExec) from 0-based
\* index i: the outcome and the value lastIndex is left with.
RegExpExecFrom(R, S, i) ==
    IF i > Len(S)
    THEN [matched |-> FALSE,
          lastIndex |-> IF R.global \/ R.sticky THEN 0 ELSE R.lastIndex]
    ELSE IF MatchAt(R.source, S, i)
    THEN [matched |-> TRUE,
          lastIndex |-> IF R.global \/ R.sticky THEN i + Len(R.source)
                        ELSE R.lastIndex]
    ELSE IF R.sticky
    THEN [matched |-> FALSE, lastIndex |-> 0]
    ELSE RegExpExecFrom(R, S, i + 1)

\* pattern.test(S): a g or y RegExp starts at its lastIndex, any other at 0.
RegExpTest(R, S) ==
    RegExpExecFrom(R, S, IF R.global \/ R.sticky THEN R.lastIndex ELSE 0)

\* The value a matcher returns, with the state it leaves the pattern in.
MatcherResult(value, pattern) == [value |-> value, pattern |-> pattern]

\* typeof pattern === 'string' ? flat.includes(pattern) : pattern.test(flat)
MatchFlat(pattern, flat) ==
    IF pattern.kind = "string"
    THEN MatcherResult(JsIncludes(flat, pattern.source), pattern)
    ELSE LET e == RegExpTest(pattern, flat)
         IN  MatcherResult(e.matched, [pattern EXCEPT !.lastIndex = e.lastIndex])

\* Mutant: the pattern is tested against req.url(), not the flattened URL.
requestMatcher_UrlOnly(pattern, request) == MatchFlat(pattern, request.url)

\* requestMatcher(pattern)(req)
requestMatcher(pattern, request) == MatchFlat(pattern, flatRequestUrl(request))

\* responseMatcher(pattern)(res)
responseMatcher(pattern, response) == MatchFlat(pattern, flatResponseUrl(response))

\* Mutant: the callback's error is not caught.
CatchAll_Rethrow(raised) == raised

\* try { cb(x) } catch (e) {}: whether an error raised by cb leaves the block.
CatchAll(raised) == FALSE

JsBool(b) == IF b THEN "true" ELSE "false"

\* Mutant: cb is invoked before the pattern is tested, match or not.
MatcherCbResult_CallsBeforeTest(m, x, cbThrows) ==
    [value |-> JsBool(m.value), pattern |-> m.pattern, cbArgs |-> <<x>>,
     cbRaised |-> cbThrows, escaped |-> FALSE]

\* The body of a ...MatcherCb closure, given the outcome m of the plain
\* matcher, the object x handed to cb and whether cb raises.
MatcherCbResult(m, x, cbThrows) ==
    IF m.value
    THEN [value |-> IF CatchAll(cbThrows) THEN "none" ELSE "true",
          pattern |-> m.pattern, cbArgs |-> <<x>>,
          cbRaised |-> cbThrows, escaped |-> CatchAll(cbThrows)]
    ELSE [value |-> "false",
          pattern |-> m.pattern, cbArgs |-> <<>>,
          cbRaised |-> FALSE, escaped |-> FALSE]

\* requestMatcherCb(pattern, cb)(req)
requestMatcherCb(pattern, cbThrows, request) ==
    MatcherCbResult(requestMatcher(pattern, request), request, cbThrows)

\* responseMatcherCb(pattern, cb)(res)
responseMatcherCb(pattern, cbThrows, response) ==
    MatcherCbResult(responseMatcher(pattern, response), response, cbThrows)

\* ------------------------------------------------- tracking requests

\* A URL or body of a tracking request is a sequence of tokens: the path,
\* '?', '&', '=', a parameter name, or one character of a parameter value.
WTS == "/web-to-server"
FB == "facebook.com/tr/"
EQ == "="
\* undefined: the value of a property that is not there.
Undefined == <<"undefined">>

\* The values of the parameters en, eid, id and ev: 'p', 'pp', ...
ParamValues == {v \in SeqsUpTo({"p"}, MaxValLen) : v # <<>>}
\* The values of ed: 'J' is the base64 text of a JSON document, 'X' is not.
EdValues == {<<"J">>, <<"X">>}
\* The value of dl and of l, parameters the library does not read.
DlValues == {<<"d">>}
\* The value of gtm_auth and gtm_preview on a request of the page.
TokenValues == {<<"t">>}

ValuesOf(key) ==
    IF key = "ed" THEN EdValues
    ELSE IF key \in {"dl", "l"} THEN DlValues
    ELSE IF key \in {"gtm_auth", "gtm_preview"} THEN TokenValues
    ELSE ParamValues

RECURSIVE ParamLists(_)
\* The parameter lists over the names keys: each name at most once, in any
\* order, each with one of its values.
ParamLists(keys) ==
    {<<>>} \cup UNION {{<<<<k, v>>>> \o rest : v \in ValuesOf(k),
                                            rest \in ParamLists(keys \ {k})}
                       : k \in keys}

RECURSIVE ParamString(_)
\* k1=v1&k2=v2...
ParamString(ps) ==
    IF ps = <<>> THEN <<>>
    ELSE <<ps[1][1], EQ>> \o ps[1][2]
         \o (IF Len(ps) > 1 THEN <<AMP>> \o ParamString(Tail(ps)) ELSE <<>>)

\* The response correlated with a tracking request: request.response()
\* resolves to null (the request failed), or to a response whose json() is a
\* document reporting events_received, or whose body is no JSON; or it never
\* resolves (the response never arrives).
ResponseOf(state, n) == [state |-> state, events_received |-> n]

WtsResponses ==
    {ResponseOf("null", 0), ResponseOf("pending", 0), ResponseOf("notjson", 0)}
    \cup {ResponseOf("json", n) : n \in 0..2}

PixelResponses == {ResponseOf("null", 0), ResponseOf("pending", 0), ResponseOf("json", 1)}

\* An observed request with the response the host correlates with it.
TrackingRequest(url, postData, response) ==
    [url |-> url, postData |-> postData, response |-> response]

\* The requests to path whose parameters ps travel in the URL (a GET) or in
\* the body (a POST).
RequestsTo(path, ps, responses) ==
    {TrackingRequest(<<path, QM>> \o ParamString(ps), NULL, r) : r \in responses}
    \cup (IF ps = <<>> THEN {}
          ELSE {TrackingRequest(<<path>>, ParamString(ps), r) : r \in responses})

WtsRequests ==
    UNION {RequestsTo(WTS, ps, WtsResponses) : ps \in ParamLists({"en", "eid", "ed"})}

PixelRequests ==
    UNION {RequestsTo(FB, ps, PixelResponses) : ps \in ParamLists({"id", "ev", "dl", "eid"})}

RECURSIVE SplitAt(_, _)
\* s split at every token sep.
SplitAt(s, sep) ==
    IF ~\E i \in 1..Len(s) : s[i] = sep THEN <<s>>
    ELSE LET i == CHOOSE k \in 1..Len(s) :
                      s[k] = sep /\ \A m \in 1..(k - 1) : s[m] # sep
         IN  <<SubSeq(s, 1, i - 1)>> \o SplitAt(SubSeq(s, i + 1, Len(s)), sep)

\* new URL(url).searchParams.entries(): the name=value pairs after the '?'.
SearchParams(url) ==
    IF ~\E i \in 1..Len(url) : url[i] = QM THEN <<>>
    ELSE LET q == CHOOSE k \in 1..Len(url) :
                      url[k] = QM /\ \A m \in 1..(k - 1) : url[m] # QM
             parts == SplitAt(SubSeq(url, q + 1, Len(url)), AMP)
             named == SelectSeq(parts, LAMBDA part : part # <<>>)
             Entry(part) ==
                 IF \E i \in 1..Len(part) : part[i] = EQ
                 THEN LET e == CHOOSE k \in 1..Len(part) :
                                   part[k] = EQ /\ \A m \in 1..(k - 1) : part[m] # EQ
                      IN  <<SubSeq(part, 1, e - 1), SubSeq(part, e + 1, Len(part))>>
                 ELSE <<part, <<>>>>
         IN  [i \in 1..Len(named) |-> Entry(named[i])]

\* Object.fromEntries(entries)[name]: the last entry of that name wins; a
\* name that is not there reads undefined.
FromEntries(entries, name) ==
    IF \E i \in 1..Len(entries) : entries[i][1] = <<name>>
    THEN entries[CHOOSE i \in 1..Len(entries) :
                     /\ entries[i][1] = <<name>>
                     /\ \A j \in (i + 1)..Len(entries) : entries[j][1] # <<name>>][2]
    ELSE Undefined

RECURSIVE SegmentsMatch(_, _, _)
\* re.test(s) for a regular expression that is a list of literal segments
\* with a wildcard (.*? or .*) between them: the segments occur in s in
\* order, the first one anywhere at or after the 0-based index from.
SegmentsMatch(segments, s, from) ==
    IF segments = <<>> THEN TRUE
    ELSE LET i == IndexOfFrom(s, Head(segments), from)
         IN  /\ i <= Len(s)
             /\ SegmentsMatch(Tail(segments), s, i + Len(Head(segments)))

\* new RegExp(`/web-to-server\\?en=${eventName || '.*?'}&eid=${eventId}`)
WtsRegExp(eventName, eventId) ==
    IF eventName = <<>>
    THEN << <<WTS, QM, "en", EQ>>, <<AMP, "eid", EQ>> \o eventId >>
    ELSE << <<WTS, QM, "en", EQ>> \o eventName \o <<AMP, "eid", EQ>> \o eventId >>

\* new RegExp(`facebook.com/tr/\\?id=${pixelId || '.*?'}&ev=${eventName}&.*&eid=${eventId}`)
PixelRegExp(pixelId, eventName, eventId) ==
    IF pixelId = <<>>
    THEN << <<FB, QM, "id", EQ>>,
            <<AMP, "ev", EQ>> \o eventName \o <<AMP>>,
            <<AMP, "eid", EQ>> \o eventId >>
    ELSE << <<FB, QM, "id", EQ>> \o pixelId \o <<AMP, "ev", EQ>> \o eventName \o <<AMP>>,
            <<AMP, "eid", EQ>> \o eventId >>

\* ------------------------------------------------------------ waiters

\* The base64 text 'J' decodes to this JSON document.
EventData == <<"event_data">>

\* Buffer.from(undefined, 'base64') raises a TypeError; JSON.parse raises a
\* SyntaxError on text that is no JSON document.
DecodeEventData(event_data_string) ==
    IF event_data_string = Undefined THEN [ok |-> FALSE, error |-> "TypeError", value |-> Undefined]
    ELSE IF event_data_string = <<"J">> THEN [ok |-> TRUE, error |-> "", value |-> EventData]
    ELSE [ok |-> FALSE, error |-> "SyntaxError", value |-> Undefined]

NoRequest == TrackingRequest(<<>>, NULL, ResponseOf("null", 0))
NoResponse == ResponseOf("null", 0)

\* What a wait has come to: still pending, resolved with a value, or
\* rejected with an error (and the data the error carries).
Outcome(status, error, errorData, event_name, event_id, event_data, pixel_id, responseBody, requestUrl) ==
    [status |-> status, error |-> error, errorData |-> errorData,
     event_name |-> event_name, event_id |-> event_id, event_data |-> event_data,
     pixel_id |-> pixel_id, responseBody |-> responseBody, requestUrl |-> requestUrl]

Pending ==
    Outcome("pending", "", NoResponse, Undefined, Undefined, Undefined, Undefined,
            NoResponse, <<>>)

Rejected(error, errorData) ==
    Outcome("rejected", error, errorData, Undefined, Undefined, Undefined, Undefined,
            NoResponse, <<>>)

\* request => re.test(request.url())
WaitPredicate(re, request) == SegmentsMatch(re, request.url, 0)

\* Mutant: only a delivery count of 0 is taken for a failed delivery.
WtsAfterMatch_ZeroOnly(request) ==
    LET response == request.response
        entries == SearchParams(request.url)
        decoded == DecodeEventData(FromEntries(entries, "ed"))
    IN  IF response.state = "notjson" THEN Rejected("SyntaxError", NoResponse)
        ELSE IF ~decoded.ok THEN Rejected(decoded.error, NoResponse)
        ELSE IF response.state = "null" THEN Rejected("TypeError", NoResponse)
        ELSE IF response.events_received = 0 THEN Rejected("Error", response)
        ELSE Outcome("resolved", "", NoResponse, FromEntries(entries, "en"),
                     FromEntries(entries, "eid"), decoded.value,
                     Undefined, response, request.url)

\* Mutant: en and eid are destructured into each other's variable.
WtsAfterMatch_SwappedIds(request) ==
    LET response == request.response
        entries == SearchParams(request.url)
        decoded == DecodeEventData(FromEntries(entries, "ed"))
    IN  IF response.state = "notjson" THEN Rejected("SyntaxError", NoResponse)
        ELSE IF ~decoded.ok THEN Rejected(decoded.error, NoResponse)
        ELSE IF response.state = "null" THEN Rejected("TypeError", NoResponse)
        ELSE IF response.events_received # 1 THEN Rejected("Error", response)
        ELSE Outcome("resolved", "", NoResponse, FromEntries(entries, "eid"),
                     FromEntries(entries, "en"), decoded.value,
                     Undefined, response, request.url)

\* Mutant: a decode error is caught and event_data left undefined.
WtsAfterMatch_CatchesDecode(request) ==
    LET response == request.response
        entries == SearchParams(request.url)
        decoded == DecodeEventData(FromEntries(entries, "ed"))
    IN  IF response.state = "notjson" THEN Rejected("SyntaxError", NoResponse)
        ELSE IF response.state = "null" THEN Rejected("TypeError", NoResponse)
        ELSE IF response.events_received # 1 THEN Rejected("Error", response)
        ELSE Outcome("resolved", "", NoResponse, FromEntries(entries, "en"),
                     FromEntries(entries, "eid"), decoded.value,
                     Undefined, response, request.url)

\* The body of waitForWebToServer from `await (await request.response())?.json()`
\* to its return, for a request whose response() has resolved.
WtsAfterMatch(request) ==
    LET response == request.response
        entries == SearchParams(request.url)
        event_name == FromEntries(entries, "en")
        event_id == FromEntries(entries, "eid")
        event_data_string == FromEntries(entries, "ed")
        decoded == DecodeEventData(event_data_string)
    IN  IF response.state = "notjson" THEN Rejected("SyntaxError", NoResponse)
        ELSE IF ~decoded.ok THEN Rejected(decoded.error, NoResponse)
        ELSE IF response.state = "null" THEN Rejected("TypeError", NoResponse)
        ELSE IF response.events_received # 1 THEN Rejected("Error", response)
        ELSE Outcome("resolved", "", NoResponse, event_name, event_id, decoded.value,
                     Undefined, response, request.url)

\* The body of waitForFacebookPixel after its waitForRequest.
PixelAfterMatch(request) ==
    LET entries == SearchParams(request.url)
    IN  Outcome("resolved", "", NoResponse,
                FromEntries(entries, "ev"), FromEntries(entries, "eid"), Undefined,
                FromEntries(entries, "id"), NoResponse, request.url)

\* Mutant: the timeout argument is not handed to page.waitForRequest.
Wait_TimeoutDropped(kind, eventName, eventId, pixelId, hasTimeout, timeout) ==
    [kind |-> kind, eventName |-> eventName, eventId |-> eventId, pixelId |-> pixelId,
     hasTimeout |-> hasTimeout, timeout |-> timeout,
     re |-> IF kind = "wts" THEN WtsRegExp(eventName, eventId)
            ELSE PixelRegExp(pixelId, eventName, eventId),
     hostTimeoutGiven |-> FALSE,
     hostTimeout |-> 0,
     pc |-> "waiting", start |-> 0, hostCalls |-> 1,
     request |-> NoRequest, outcome |-> Pending]

\* One invocation of a waiter: its arguments, the regular expression it
\* built, the options it handed to page.waitForRequest, where it stands and
\* what it came to.
Wait(kind, eventName, eventId, pixelId, hasTimeout, timeout) ==
    [kind |-> kind, eventName |-> eventName, eventId |-> eventId, pixelId |-> pixelId,
     hasTimeout |-> hasTimeout, timeout |-> timeout,
     re |-> IF kind = "wts" THEN WtsRegExp(eventName, eventId)
            ELSE PixelRegExp(pixelId, eventName, eventId),
     hostTimeoutGiven |-> hasTimeout /\ timeout # 0,
     hostTimeout |-> IF hasTimeout /\ timeout # 0 THEN timeout ELSE 0,
     pc |-> "waiting", start |-> 0, hostCalls |-> 1,
     request |-> NoRequest, outcome |-> Pending]

Idle ==
    [kind |-> "idle", eventName |-> <<>>, eventId |-> <<>>, pixelId |-> <<>>,
     hasTimeout |-> FALSE, timeout |-> 0, re |-> <<>>,
     hostTimeoutGiven |-> FALSE, hostTimeout |-> 0,
     pc |-> "idle", start |-> 0, hostCalls |-> 0,
     request |-> NoRequest, outcome |-> Pending]

\* The timeout page.waitForRequest applies when it is handed none (the
\* host's default, in ms).
DefaultTimeout == 2

\* The instant the host's wait of an invocation times out.
Deadline(wait) ==
    wait.start + (IF wait.hostTimeoutGiven THEN wait.hostTimeout ELSE DefaultTimeout)

WaitIds == {1, 2}

\* A filter argument: omitted (the default ''), or the value 'p'.
FilterValues == {<<>>, <<"p">>}

\* The timeout argument: omitted, 0, or 1 ms.
TimeoutArgs == {<<FALSE, 0>>, <<TRUE, 0>>, <<TRUE, 1>>}

\* --------------------------------------------------- session helpers

\* The browser contexts of a test run and the session names it uses.
Contexts == {"contextA", "contextB"}
Keys == {"k1", "k2"}

Cookie(name, value) == [name |-> name, value |-> value]

\* The cookies a site sets: a session id, and a preference.
Cookies == {Cookie("sid", v) : v \in 1..MaxCookieVal} \cup {Cookie("pref", 1)}

\* context.cookies(): the jar of a context holds one cookie per name.
Jars == {jar \in SUBSET Cookies : \A c, d \in jar : c.name = d.name => c = d}

\* context.addCookies(cookies): a cookie replaces the one of the same name.
AddCookies(jar, cookies) ==
    {c \in jar : \A d \in cookies : d.name # c.name} \cup cookies

\* The expires argument: omitted, or a number of seconds.
ExpiresArgs == {Undefined, <<"7200">>}

\* A JSON value travelling to or from the store: a cookie array, or nothing
\* (null / undefined / an empty body).
Json(cookies) == [present |-> TRUE, cookies |-> cookies]
Nothing == [present |-> FALSE, cookies |-> {}]

\* axios.post(`https://lourenco-json-storage.glitch.me/${key}`, {data, expires})
saveJsonToGlitch(key, data, expires) ==
    [key |-> key, body |-> [data |-> data, expires |-> expires]]

\* What the store keeps under a name it holds nothing for.
NoEntry == [data |-> Nothing, expires |-> Undefined]

\* The store accepts a POST: it keeps the body under the key.
StorePut(store, post) == [store EXCEPT ![post.key] = post.body]

\* The store answers a GET with the data it keeps under the key.
StoreGet(store, key) == [data |-> store[key].data]

\* (await axios.get(`https://lourenco-json-storage.glitch.me/${key}`)).data
fetchJsonFromGlitch(response) == response.data

\* Mutant: saveSessionCookies posts the jar whether or not it is empty.
saveSessionCookies_AlwaysPosts(cookies, key, expires) ==
    [posts |-> TRUE, post |-> saveJsonToGlitch(key, Json(cookies), expires)]

\* saveSessionCookies up to its POST: `if (cookies.length)` posts the jar.
saveSessionCookies(cookies, key, expires) ==
    IF cookies # {}
    THEN [posts |-> TRUE, post |-> saveJsonToGlitch(key, Json(cookies), expires)]
    ELSE [posts |-> FALSE, post |-> saveJsonToGlitch(key, Nothing, expires)]

\* Mutant: restoreSessionCookies returns true without calling addCookies.
restoreSessionCookies_NoAdd(cookies) ==
    IF cookies.present
    THEN [adds |-> FALSE, cookies |-> {}, returns |-> "true"]
    ELSE [adds |-> FALSE, cookies |-> {}, returns |-> "false"]

\* Mutant: restoreSessionCookies returns true whatever it fetched.
restoreSessionCookies_AlwaysTrue(cookies) ==
    IF cookies.present
    THEN [adds |-> TRUE, cookies |-> cookies.cookies, returns |-> "true"]
    ELSE [adds |-> FALSE, cookies |-> {}, returns |-> "true"]

\* restoreSessionCookies after its fetch: `if (cookies)` adds them.
restoreSessionCookies(cookies) ==
    IF cookies.present
    THEN [adds |-> TRUE, cookies |-> cookies.cookies, returns |-> "true"]
    ELSE [adds |-> FALSE, cookies |-> {}, returns |-> "false"]

\* The session state: the store, the jar of each context, the last call
\* (its context, key and expires, whether the store answered its request,
\* what it returned, the POSTs it sent, what addCookies was called with),
\* and, per key, the cookies the saving context held when the store last
\* accepted a save.
Session(store, jars, held, ctx, key, expires, answered, returned, posts, added) ==
    [store |-> store, jars |-> jars, held |-> held, ctx |-> ctx, key |-> key,
     expires |-> expires, answered |-> answered, returned |-> returned,
     posts |-> posts, added |-> added]

NoSession ==
    Session([k \in Keys |-> NoEntry], [c \in Contexts |-> {}],
            [k \in Keys |-> Nothing], "", "", Undefined, TRUE, "none", <<>>, Nothing)

\* ------------------------------------------------------ previewGTM

\* A page URL is a sequence of tokens: the scheme, the hostname, '/', the
\* script name, '?', '#', '&', '=', a parameter name, or one character of a
\* parameter value.
HASH == "#"
SLASH == "/"
GTMJS == "gtm.js"
TagAssistant == "tagassistant.google.com"

\* The gtm_auth and gtm_preview tokens a Tag Assistant URL carries.
GtmAuth == <<"A">>
GtmPreview == <<"E">>

\* What a Tag Assistant preview URL carries: id, gtm_auth, gtm_preview.
Preview(id, gtm_auth, gtm_preview) ==
    [id |-> id, gtm_auth |-> gtm_auth, gtm_preview |-> gtm_preview]

PreviewParams(ta) ==
    ParamString(<< <<"id", ta.id>>, <<"gtm_auth", ta.gtm_auth>>,
                   <<"gtm_preview", ta.gtm_preview>>, <<"cb", <<"c">>>> >>)

\* The URL Tag Assistant shows (its own query, then '#/?' and the preview
\* parameters), and the same URL with the preview parameters as its query.
TagAssistantUrl(ta, full) ==
    IF full
    THEN <<"https://", TagAssistant, SLASH, QM, "authuser", EQ, "8", HASH, SLASH, QM,
           "source", EQ, "T", AMP>> \o PreviewParams(ta)
    ELSE <<"https://", TagAssistant, SLASH, QM>> \o PreviewParams(ta)

\* tagAssistantUrl.replace(/\/\?.*?#\/\?/, '/?'): the first '/?' up to the
\* nearest '#/?' after it becomes '/?'; a URL without them is left as it is.
TaReplace(url) ==
    LET i == IndexOfFrom(url, <<SLASH, QM>>, 0)
        j == IndexOfFrom(url, <<HASH, SLASH, QM>>, i + 2)
    IN  IF i > Len(url) \/ j > Len(url) THEN url
        ELSE SubSeq(url, 1, i) \o <<SLASH, QM>> \o SubSeq(url, j + 4, Len(url))

\* url.searchParams.get(name): the value of the first entry of that name,
\* or null.
SearchParamsGet(url, name) ==
    LET entries == SearchParams(url)
    IN  IF \E i \in 1..Len(entries) : entries[i][1] = <<name>>
        THEN entries[CHOOSE i \in 1..Len(entries) :
                         /\ entries[i][1] = <<name>>
                         /\ \A j \in 1..(i - 1) : entries[j][1] # <<name>>][2]
        ELSE NULL

\* new RegExp(`gtm.js\\?id=${containerId}(?!.*gtm_auth=)(?!.*gtm_preview=)`)
\* tested on url: 'gtm.js?id=' and the container id occur somewhere, and
\* neither 'gtm_auth=' nor 'gtm_preview=' occurs after that occurrence.
RouteRegExpTest(containerId, url) ==
    \E i \in 0..Len(url) :
        LET after == i + 4 + Len(containerId)
        IN  /\ MatchAt(<<GTMJS, QM, "id", EQ>> \o containerId, url, i)
            /\ IndexOfFrom(url, <<"gtm_auth", EQ>>, after) > Len(url)
            /\ IndexOfFrom(url, <<"gtm_preview", EQ>>, after) > Len(url)

\* new URL(request.url()).hostname
Hostname(url) == url[2]

\* The script a request asks for.
ScriptOf(url) == url[4]

\* `https://${requestHostname}/gtm.js?id=${containerId}&gtm_auth=${gtm_auth}
\*  &gtm_preview=${gtm_preview}&cb=${Date.now()}`
ContinueUrl(requestHostname, containerId, gtm_auth, gtm_preview) ==
    <<"https://", requestHostname, SLASH, GTMJS, QM>>
    \o ParamString(<< <<"id", containerId>>, <<"gtm_auth", gtm_auth>>,
                      <<"gtm_preview", gtm_preview>>, <<"cb", <<"now">>>> >>)

\* The state of previewGTM: the Tag Assistant URL's parameters, what the
\* function read from it, the last request of the page, the URL it was
\* continued to and the number of times the route handler ran on it.
Gtm(installed, ta, containerId, gtm_auth, gtm_preview, request, continued, handled) ==
    [installed |-> installed, ta |-> ta, containerId |-> containerId,
     gtm_auth |-> gtm_auth, gtm_preview |-> gtm_preview,
     request |-> request, continued |-> continued, handled |-> handled]

NoPreview == Gtm(FALSE, Preview(NULL, NULL, NULL), NULL, NULL, NULL, None, None, 0)

\* The Tag Assistant URLs a test passes.
TagAssistantUrls ==
    {[ta |-> Preview(id, GtmAuth, GtmPreview), full |-> full] :
        id \in ParamValues, full \in BOOLEAN}

Hostnames == {"www.googletagmanager.com", "sgtm.example.com"}
Scripts == {GTMJS, "gtag.js"}

\* The script requests a page makes.
GtmRequests ==
    {<<"https://", h, SLASH, s, QM>> \o ParamString(ps) :
        h \in Hostnames, s \in Scripts,
        ps \in ParamLists({"id", "l", "gtm_auth", "gtm_preview"})}

\* --------------------------------------------------- scrollToBottom

\* Lengths are in units of 20 px.  The viewport of the page (innerHeight),
\* the 20 px the loop condition adds, and the pause of an iteration in ms.
InnerHeight == 2
Margin == 1
PauseMs == 700

\* A page: document.body.scrollHeight, and whether the window scrolls the
\* body ("document") or the body scrolls inside a window that does not
\* ("container": scrollY stays where it is).
Page(layout, scrollHeight) == [layout |-> layout, scrollHeight |-> scrollHeight]

Pages == {Page(l, h) : l \in {"document", "container"}, h \in 0..MaxScrollHeight}

\* The timeToWaitAfterScroll a caller passes, in ms.
WaitsAfterScroll == {-1, 0, 1000}

\* The options object of a call: every property but page may be left out.
ScrollOptions ==
    UNION {{[page |-> p],
            [page |-> p, returnToTop |-> r],
            [page |-> p, timeToWaitAfterScroll |-> t],
            [page |-> p, timeToWaitAfterScroll |-> t, returnToTop |-> r]} :
           p \in Pages, r \in BOOLEAN, t \in WaitsAfterScroll}

\* { name = d }: the value of a destructured property with a default.
OrDefault(options, name, d) == IF name \in DOMAIN options THEN options[name] ELSE d

\* The largest scrollY the window can take.
MaxScrollY(layout, scrollHeight) ==
    IF layout = "document" /\ scrollHeight > InnerHeight
    THEN scrollHeight - InnerHeight ELSE 0

\* 'scrollY + innerHeight + 20 < document.body.scrollHeight'
NotAtBottom(scrollY, scrollHeight) == scrollY + InnerHeight + Margin < scrollHeight

\* The state of scrollToBottom: where the call stands, its two options,
\* the page, the last scrollBy distance and pause, the values the loop
\* condition read when it failed, and the operations made after the loop.
Scroll(pc, returnToTop, timeToWaitAfterScroll, layout, scrollHeight, scrollY, target, by, paused, exit, tail) ==
    [pc |-> pc, returnToTop |-> returnToTop,
     timeToWaitAfterScroll |-> timeToWaitAfterScroll,
     layout |-> layout, scrollHeight |-> scrollHeight, scrollY |-> scrollY,
     target |-> target, by |-> by, paused |-> paused, exit |-> exit, tail |-> tail]

NoExit == [scrollY |-> 0, scrollHeight |-> 0]

NoScroll == Scroll("idle", TRUE, 0, "document", 0, 0, 0, 0, 0, NoExit, <<>>)

\* -------------------------------------------------------------- state

VARIABLES
    req,        \* the observed request the next call is made on
    pat,        \* the pattern object held by the matcher closures
    last,       \* the exported function called last
    flatOut,    \* what the last flatRequestUrl / flatResponseUrl call returned
    flatPrev,   \* what the call before it returned, on the same request
    matchOut,   \* what the last matcher call returned: "true", "false", "none"
    cbArgs,     \* the arguments cb was invoked with during the last call
    cbRaised,   \* whether cb raised an error during the last call
    escaped,    \* whether the last call ended by throwing to its caller
    waits,      \* the invocations of waitForWebToServer / waitForFacebookPixel
    now,        \* the clock of the waiters, in ms
    sess,       \* the store, the cookie jars and the last session call
    gtm,        \* the route previewGTM registered and the last request it saw
    scroll,     \* the invocation of scrollToBottom and the page it scrolls
    scope       \* which invocations run and which requests the page emits

flatVars == <<flatOut, flatPrev>>
matchVars == <<matchOut, cbArgs, cbRaised, escaped>>
waitVars == <<waits, now, scope>>
sessVars == <<sess>>
pageVars == <<gtm, scroll>>
vars == <<req, pat, last, flatOut, flatPrev, matchOut, cbArgs, cbRaised, escaped,
          waits, now, scope, sess, gtm, scroll>>

NoPattern == [kind |-> "none"]

\* The response correlated with the observed request.
res == Response(req)

InitFlat ==
    /\ req \in Requests
    /\ pat = NoPattern
    /\ last = "init"
    /\ flatOut = None
    /\ flatPrev = None
    /\ matchOut = "none"
    /\ cbArgs = <<>>
    /\ cbRaised = FALSE
    /\ escaped = FALSE
    /\ waits = [w \in WaitIds |-> Idle]
    /\ now = 0
    /\ scope = "none"
    /\ sess = NoSession
    /\ gtm = NoPreview
    /\ scroll = NoScroll

\* Mutant: the flattened URL is written back into the request.
FlatRequestUrlCall_WriteBack ==
    /\ flatOut' = flatRequestUrl(req)
    /\ flatPrev' = flatOut
    /\ req' = [req EXCEPT !.url = flatRequestUrl(req)]
    /\ last' = "flatRequestUrl"
    /\ UNCHANGED <<pat, matchVars, waitVars, sessVars, pageVars>>

\* A caller evaluates flatRequestUrl(req).
FlatRequestUrlCall ==
    /\ flatOut' = flatRequestUrl(req)
    /\ flatPrev' = flatOut
    /\ last' = "flatRequestUrl"
    /\ UNCHANGED <<req, pat, matchVars, waitVars, sessVars, pageVars>>

\* A caller evaluates flatResponseUrl(res).
FlatResponseUrlCall ==
    /\ flatOut' = flatResponseUrl(res)
    /\ flatPrev' = flatOut
    /\ last' = "flatResponseUrl"
    /\ UNCHANGED <<req, pat, matchVars, waitVars, sessVars, pageVars>>

NextFlat == FlatRequestUrlCall \/ FlatResponseUrlCall

SpecFlat == InitFlat /\ [][NextFlat]_vars

InitMatch ==
    /\ req \in MatchRequests
    /\ pat \in Patterns
    /\ last = "init"
    /\ flatOut = None
    /\ flatPrev = None
    /\ matchOut = "none"
    /\ cbArgs = <<>>
    /\ cbRaised = FALSE
    /\ escaped = FALSE
    /\ waits = [w \in WaitIds |-> Idle]
    /\ now = 0
    /\ scope = "none"
    /\ sess = NoSession
    /\ gtm = NoPreview
    /\ scroll = NoScroll

\* A caller (the host's waitForRequest, say) evaluates requestMatcher(pat)(req).
RequestMatcherCall ==
    LET m == requestMatcher(pat, req)
    IN  /\ matchOut' = JsBool(m.value)
        /\ pat' = m.pattern
        /\ last' = "requestMatcher"
        /\ cbArgs' = <<>>
        /\ cbRaised' = FALSE
        /\ escaped' = FALSE
        /\ UNCHANGED <<req, flatVars, waitVars, sessVars, pageVars>>

\* A caller evaluates responseMatcher(pat)(res).
ResponseMatcherCall ==
    LET m == responseMatcher(pat, res)
    IN  /\ matchOut' = JsBool(m.value)
        /\ pat' = m.pattern
        /\ last' = "responseMatcher"
        /\ cbArgs' = <<>>
        /\ cbRaised' = FALSE
        /\ escaped' = FALSE
        /\ UNCHANGED <<req, flatVars, waitVars, sessVars, pageVars>>

\* A caller evaluates requestMatcherCb(pat, cb)(req); cb raises or returns.
RequestMatcherCbCall(cbThrows) ==
    LET m == requestMatcherCb(pat, cbThrows, req)
    IN  /\ matchOut' = m.value
        /\ pat' = m.pattern
        /\ last' = "requestMatcherCb"
        /\ cbArgs' = m.cbArgs
        /\ cbRaised' = m.cbRaised
        /\ escaped' = m.escaped
        /\ UNCHANGED <<req, flatVars, waitVars, sessVars, pageVars>>

\* A caller evaluates responseMatcherCb(pat, cb)(res); cb raises or returns.
ResponseMatcherCbCall(cbThrows) ==
    LET m == responseMatcherCb(pat, cbThrows, res)
    IN  /\ matchOut' = m.value
        /\ pat' = m.pattern
        /\ last' = "responseMatcherCb"
        /\ cbArgs' = m.cbArgs
        /\ cbRaised' = m.cbRaised
        /\ escaped' = m.escaped
        /\ UNCHANGED <<req, flatVars, waitVars, sessVars, pageVars>>

NextMatch ==
    \/ RequestMatcherCall
    \/ ResponseMatcherCall
    \/ \E cbThrows \in BOOLEAN : RequestMatcherCbCall(cbThrows)
    \/ \E cbThrows \in BOOLEAN : ResponseMatcherCbCall(cbThrows)

SpecMatch == InitMatch /\ [][NextMatch]_vars

\* The requests the page emits while the waiters run.
Pool == WtsRequests \cup PixelRequests

InitWait ==
    /\ req = Request(<<"a">>, NULL)
    /\ pat = NoPattern
    /\ last = "init"
    /\ flatOut = None
    /\ flatPrev = None
    /\ matchOut = "none"
    /\ cbArgs = <<>>
    /\ cbRaised = FALSE
    /\ escaped = FALSE
    /\ waits = [w \in WaitIds |-> Idle]
    /\ now = 0
    /\ scope = "single"
    /\ sess = NoSession
    /\ gtm = NoPreview
    /\ scroll = NoScroll

\* Which invocations the scope starts: one, or two that run concurrently on
\* the same page.
MayStart(w) == w = 1 \/ scope = "concurrent"

\* Mutant: re is a variable of the module, shared by the invocations: a
\* call replaces the expression the pending waits test.
StartWaitForWebToServer_SharedRe(w, eventName, eventId, t) ==
    /\ MayStart(w)
    /\ waits[w].pc = "idle"
    /\ waits' = [o \in WaitIds |->
                    IF o = w
                    THEN [Wait("wts", eventName, eventId, <<>>, t[1], t[2])
                             EXCEPT !.start = now]
                    ELSE IF waits[o].pc = "waiting"
                    THEN [waits[o] EXCEPT !.re = WtsRegExp(eventName, eventId)]
                    ELSE waits[o]]
    /\ last' = "waitForWebToServer"
    /\ UNCHANGED <<req, pat, flatVars, matchVars, now, scope, sessVars, pageVars>>

\* A test calls waitForWebToServer({page, eventName, eventId, timeout}): the
\* function builds re and awaits page.waitForRequest.
StartWaitForWebToServer(w, eventName, eventId, t) ==
    /\ MayStart(w)
    /\ waits[w].pc = "idle"
    /\ waits' = [waits EXCEPT ![w] =
                    [Wait("wts", eventName, eventId, <<>>, t[1], t[2])
                        EXCEPT !.start = now]]
    /\ last' = "waitForWebToServer"
    /\ UNCHANGED <<req, pat, flatVars, matchVars, now, scope, sessVars, pageVars>>

\* A test calls waitForFacebookPixel({page, eventName, pixelId, eventId, timeout}).
StartWaitForFacebookPixel(w, eventName, pixelId, eventId, t) ==
    /\ MayStart(w)
    /\ waits[w].pc = "idle"
    /\ waits' = [waits EXCEPT ![w] =
                    [Wait("pixel", eventName, eventId, pixelId, t[1], t[2])
                        EXCEPT !.start = now]]
    /\ last' = "waitForFacebookPixel"
    /\ UNCHANGED <<req, pat, flatVars, matchVars, now, scope, sessVars, pageVars>>

\* Mutant: waitForFacebookPixel awaits request.response() as well.
OnRequest_AwaitsResponse(wait, request) ==
    IF wait.pc = "waiting" /\ WaitPredicate(wait.re, request)
    THEN [wait EXCEPT !.pc = "response", !.request = request]
    ELSE wait

\* What the request event does to one invocation: page.waitForRequest
\* resolves with the request when the predicate accepts it; waitForFacebookPixel
\* then runs to its return, waitForWebToServer to `await request.response()`.
OnRequest(wait, request) ==
    IF wait.pc = "waiting" /\ WaitPredicate(wait.re, request)
    THEN IF wait.kind = "pixel"
         THEN [wait EXCEPT !.pc = "done", !.request = request,
                           !.outcome = PixelAfterMatch(request)]
         ELSE [wait EXCEPT !.pc = "response", !.request = request]
    ELSE wait

\* The page emits a request: every pending page.waitForRequest sees it.
ObserveRequest(request) ==
    /\ \E w \in WaitIds : waits[w].pc = "waiting"
    /\ waits' = [w \in WaitIds |-> OnRequest(waits[w], request)]
    /\ last' = "request"
    /\ UNCHANGED <<req, pat, flatVars, matchVars, now, scope, sessVars, pageVars>>

\* request.response() resolves, and waitForWebToServer runs to its end.
ResponseResolves(w) ==
    /\ waits[w].pc = "response"
    /\ waits[w].request.response.state # "pending"
    /\ waits' = [waits EXCEPT ![w].pc = "done",
                              ![w].outcome = WtsAfterMatch(waits[w].request)]
    /\ last' = "response"
    /\ UNCHANGED <<req, pat, flatVars, matchVars, now, scope, sessVars, pageVars>>

\* Mutant: a waiter that timed out calls page.waitForRequest again.
TimeoutElapses_Retries(w) ==
    /\ waits[w].pc = "waiting"
    /\ now >= Deadline(waits[w])
    /\ waits' = [waits EXCEPT ![w].start = now,
                              ![w].hostCalls = @ + 1]
    /\ last' = "timeout"
    /\ UNCHANGED <<req, pat, flatVars, matchVars, now, scope, sessVars, pageVars>>

\* The timeout of page.waitForRequest elapses with no request accepted: the
\* host rejects with its TimeoutError, which the waiter does not catch.
TimeoutElapses(w) ==
    /\ waits[w].pc = "waiting"
    /\ now >= Deadline(waits[w])
    /\ waits' = [waits EXCEPT ![w].pc = "done",
                              ![w].outcome = Rejected("TimeoutError", NoResponse)]
    /\ last' = "timeout"
    /\ UNCHANGED <<req, pat, flatVars, matchVars, now, scope, sessVars, pageVars>>

\* A millisecond passes while some page.waitForRequest is pending; the host
\* lets none of them outlive its deadline.
Tick ==
    /\ now < MaxClock
    /\ \E w \in WaitIds : waits[w].pc = "waiting"
    /\ \A w \in WaitIds : waits[w].pc = "waiting" => now < Deadline(waits[w])
    /\ now' = now + 1
    /\ last' = "tick"
    /\ UNCHANGED <<req, pat, flatVars, matchVars, waits, scope, sessVars, pageVars>>

NextWait ==
    \/ \E w \in WaitIds, eventName \in FilterValues, eventId \in FilterValues,
          t \in TimeoutArgs :
           StartWaitForWebToServer(w, eventName, eventId, t)
    \/ \E w \in WaitIds, eventName \in FilterValues, pixelId \in FilterValues,
          eventId \in FilterValues, t \in TimeoutArgs :
           StartWaitForFacebookPixel(w, eventName, pixelId, eventId, t)
    \/ \E request \in Pool : ObserveRequest(request)
    \/ \E w \in WaitIds : ResponseResolves(w)
    \/ \E w \in WaitIds : TimeoutElapses(w)
    \/ Tick

SpecWait == InitWait /\ [][NextWait]_vars

\* The web-to-server requests whose parameters travel in the URL in the
\* order the tracking script writes them, with every response they can get.
WtsPool ==
    {request \in
        UNION {RequestsTo(WTS, << <<"en", en>>, <<"eid", <<"p">>>>, <<"ed", ed>> >>,
                          WtsResponses)
               : en \in ParamValues, ed \in EdValues}
     : request.postData = NULL}

NextWts ==
    \/ \E w \in WaitIds, eventName \in FilterValues, eventId \in FilterValues,
          t \in TimeoutArgs :
           StartWaitForWebToServer(w, eventName, eventId, t)
    \/ \E request \in WtsPool : ObserveRequest(request)
    \/ \E w \in WaitIds : ResponseResolves(w)
    \/ \E w \in WaitIds : TimeoutElapses(w)
    \/ Tick

\* The response of the request a waitForWebToServer awaits has arrived (or
\* the request failed): ResponseResolves is enabled.
ResponseDue(w) ==
    /\ waits[w].pc = "response"
    /\ waits[w].request.response.state # "pending"

\* One waitForWebToServer under a host that runs its timers and delivers
\* the responses that arrive: time passes while the wait is pending, a due
\* timeout fires, and a response() that can resolve does (the weak fairness
\* of ResponseResolves, with its enabling condition written out).
SpecWtsFair ==
    /\ InitWait
    /\ [][NextWts]_vars
    /\ WF_vars(Tick)
    /\ \A w \in WaitIds :
           /\ WF_vars(TimeoutElapses(w))
           /\ []<>(~ResponseDue(w)) \/ []<><<ResponseResolves(w)>>_vars

\* The requests the page emits while two waiters run concurrently: the
\* parameters travel in the URL, in the order the tracking scripts write
\* them.
ConcurrentPool ==
    {request \in
        UNION {RequestsTo(WTS, << <<"en", en>>, <<"eid", <<"p">>>>, <<"ed", <<"J">>>> >>,
                          {ResponseOf("pending", 0), ResponseOf("json", 0),
                           ResponseOf("json", 1)})
               : en \in ParamValues}
        \cup UNION {RequestsTo(FB, << <<"id", id>>, <<"ev", <<"p">>>>, <<"dl", <<"d">>>>,
                                      <<"eid", <<"p">>>> >>,
                               {ResponseOf("pending", 0)})
                    : id \in ParamValues}
     : request.postData = NULL}

\* The timeout argument of the concurrent invocations: omitted, or 1 ms.
ConcurrentTimeoutArgs == {<<FALSE, 0>>, <<TRUE, 1>>}

InitConcurrent ==
    /\ req = Request(<<"a">>, NULL)
    /\ pat = NoPattern
    /\ last = "init"
    /\ flatOut = None
    /\ flatPrev = None
    /\ matchOut = "none"
    /\ cbArgs = <<>>
    /\ cbRaised = FALSE
    /\ escaped = FALSE
    /\ waits = [w \in WaitIds |-> Idle]
    /\ now = 0
    /\ scope = "concurrent"
    /\ sess = NoSession
    /\ gtm = NoPreview
    /\ scroll = NoScroll

NextConcurrent ==
    \/ \E w \in WaitIds, eventName \in FilterValues, eventId \in FilterValues,
          t \in ConcurrentTimeoutArgs :
           StartWaitForWebToServer(w, eventName, eventId, t)
    \/ \E w \in WaitIds, eventName \in FilterValues, pixelId \in FilterValues,
          t \in ConcurrentTimeoutArgs :
           StartWaitForFacebookPixel(w, eventName, pixelId, <<>>, t)
    \/ \E request \in ConcurrentPool : ObserveRequest(request)
    \/ \E w \in WaitIds : ResponseResolves(w)
    \/ \E w \in WaitIds : TimeoutElapses(w)
    \/ Tick

SpecConcurrent == InitConcurrent /\ [][NextConcurrent]_vars

InitSession ==
    /\ req = Request(<<"a">>, NULL)
    /\ pat = NoPattern
    /\ last = "init"
    /\ flatOut = None
    /\ flatPrev = None
    /\ matchOut = "none"
    /\ cbArgs = <<>>
    /\ cbRaised = FALSE
    /\ escaped = FALSE
    /\ waits = [w \in WaitIds |-> Idle]
    /\ now = 0
    /\ scope = "session"
    /\ \E jars \in [Contexts -> Jars] :
           sess = [NoSession EXCEPT !.jars = jars]
    /\ gtm = NoPreview
    /\ scroll = NoScroll

\* A test calls saveSessionCookies(context, key, expires); the store accepts
\* the POST, or the POST fails and saveSessionCookies throws.
SaveSessionCookies(ctx, key, expires, accepted) ==
    LET cookies == sess.jars[ctx]
        save == saveSessionCookies(cookies, key, expires)
    IN  /\ save.posts \/ accepted      \* nothing is posted: nothing to reject
        /\ sess' = [sess EXCEPT
                      !.store = IF save.posts /\ accepted
                                THEN StorePut(@, save.post) ELSE @,
                      !.held = IF save.posts /\ accepted
                               THEN [@ EXCEPT ![key] = Json(cookies)] ELSE @,
                      !.ctx = ctx, !.key = key, !.expires = expires,
                      !.answered = accepted,
                      !.returned = IF save.posts /\ ~accepted THEN "threw" ELSE "undefined",
                      !.posts = IF save.posts THEN <<save.post>> ELSE <<>>,
                      !.added = Nothing]
        /\ last' = "saveSessionCookies"
        /\ UNCHANGED <<req, pat, flatVars, matchVars, waitVars, pageVars>>

\* A test calls restoreSessionCookies(context, key); the store answers the
\* GET, or the GET fails and axios.get throws, which nothing catches.
RestoreSessionCookies(ctx, key, answered) ==
    LET cookies == fetchJsonFromGlitch(StoreGet(sess.store, key))
        restore == restoreSessionCookies(cookies)
    IN  /\ sess' = [sess EXCEPT
                      !.jars = IF answered /\ restore.adds
                               THEN [@ EXCEPT ![ctx] = AddCookies(@, restore.cookies)]
                               ELSE @,
                      !.ctx = ctx, !.key = key, !.expires = Undefined,
                      !.answered = answered,
                      !.returned = IF answered THEN restore.returns ELSE "threw",
                      !.posts = <<>>,
                      !.added = IF answered /\ restore.adds
                                THEN Json(restore.cookies) ELSE Nothing]
        /\ last' = "restoreSessionCookies"
        /\ UNCHANGED <<req, pat, flatVars, matchVars, waitVars, pageVars>>

\* The entry of a key expires: the store drops it.
Expire(key) ==
    /\ sess.store[key] # NoEntry
    /\ sess' = [sess EXCEPT !.store = [@ EXCEPT ![key] = NoEntry],
                            !.held = [@ EXCEPT ![key] = Nothing],
                            !.ctx = "", !.key = key, !.expires = Undefined,
                            !.answered = TRUE,
                            !.returned = "none", !.posts = <<>>, !.added = Nothing]
    /\ last' = "expire"
    /\ UNCHANGED <<req, pat, flatVars, matchVars, waitVars, pageVars>>

\* The jars a site leaves a context with: none after a logout, the session
\* id after a login.
SiteJars == {{}} \cup {{Cookie("sid", v)} : v \in 1..MaxCookieVal}

\* The site replaces the cookies of a context (a login, a logout).
SetCookies(ctx, jar) ==
    /\ sess.jars[ctx] # jar
    /\ sess' = [sess EXCEPT !.jars = [@ EXCEPT ![ctx] = jar],
                            !.ctx = ctx, !.key = "", !.expires = Undefined,
                            !.answered = TRUE,
                            !.returned = "none", !.posts = <<>>, !.added = Nothing]
    /\ last' = "setCookies"
    /\ UNCHANGED <<req, pat, flatVars, matchVars, waitVars, pageVars>>

NextSession ==
    \/ \E ctx \in Contexts, key \in Keys, expires \in ExpiresArgs, accepted \in BOOLEAN :
           SaveSessionCookies(ctx, key, expires, accepted)
    \/ \E ctx \in Contexts, key \in Keys, answered \in BOOLEAN :
           RestoreSessionCookies(ctx, key, answered)
    \/ \E key \in Keys : Expire(key)
    \/ \E ctx \in Contexts, jar \in SiteJars : SetCookies(ctx, jar)

SpecSession == InitSession /\ [][NextSession]_vars

\* ------------------------------------------------------ SpecPreview

InitPreview ==
    /\ req = Request(<<"a">>, NULL)
    /\ pat = NoPattern
    /\ last = "init"
    /\ flatOut = None
    /\ flatPrev = None
    /\ matchOut = "none"
    /\ cbArgs = <<>>
    /\ cbRaised = FALSE
    /\ escaped = FALSE
    /\ waits = [w \in WaitIds |-> Idle]
    /\ now = 0
    /\ scope = "preview"
    /\ sess = NoSession
    /\ gtm = NoPreview
    /\ scroll = NoScroll

\* previewGTM(pageOrContext, tagAssistantUrl): reads the container id and
\* the two preview tokens from the URL and registers the route.
PreviewGTM(ta, full) ==
    /\ scope = "preview"
    /\ ~gtm.installed
    /\ LET taUrl == TaReplace(TagAssistantUrl(ta, full))
       IN  gtm' = Gtm(TRUE, ta, SearchParamsGet(taUrl, "id"),
                      SearchParamsGet(taUrl, "gtm_auth"),
                      SearchParamsGet(taUrl, "gtm_preview"), None, None, 0)
    /\ last' = "previewGTM"
    /\ UNCHANGED <<req, pat, flatVars, matchVars, waitVars, sessVars, scroll>>

\* The page requests url: the host tests the route's pattern on it and, on
\* a match, runs the handler, which continues the request to the preview
\* URL; a request the pattern does not match goes out as it is.
Route(url) ==
    /\ scope = "preview"
    /\ gtm.installed
    /\ IF RouteRegExpTest(gtm.containerId, url)
       THEN gtm' = [gtm EXCEPT !.request = url,
                               !.continued = ContinueUrl(Hostname(url), gtm.containerId,
                                                         gtm.gtm_auth, gtm.gtm_preview),
                               !.handled = 1]
       ELSE gtm' = [gtm EXCEPT !.request = url, !.continued = url, !.handled = 0]
    /\ last' = "route"
    /\ UNCHANGED <<req, pat, flatVars, matchVars, waitVars, sessVars, scroll>>

NextPreview ==
    \/ \E t \in TagAssistantUrls : PreviewGTM(t.ta, t.full)
    \/ \E url \in GtmRequests : Route(url)

SpecPreview == InitPreview /\ [][NextPreview]_vars

\* ------------------------------------------------------- SpecScroll

InitScroll ==
    /\ req = Request(<<"a">>, NULL)
    /\ pat = NoPattern
    /\ last = "init"
    /\ flatOut = None
    /\ flatPrev = None
    /\ matchOut = "none"
    /\ cbArgs = <<>>
    /\ cbRaised = FALSE
    /\ escaped = FALSE
    /\ waits = [w \in WaitIds |-> Idle]
    /\ now = 0
    /\ scope = "scroll"
    /\ sess = NoSession
    /\ gtm = NoPreview
    /\ scroll = NoScroll

\* scrollToBottom({ page, timeToWaitAfterScroll = 0, returnToTop = true })
\* is called on a page that stands at its top.
ScrollToBottom(options) ==
    /\ scope = "scroll"
    /\ scroll.pc = "idle"
    /\ scroll' = Scroll("test", OrDefault(options, "returnToTop", TRUE),
                        OrDefault(options, "timeToWaitAfterScroll", 0),
                        options.page.layout, options.page.scrollHeight,
                        0, 0, 0, 0, NoExit, <<>>)
    /\ last' = "scrollToBottom"
    /\ UNCHANGED <<req, pat, flatVars, matchVars, waitVars, sessVars, gtm>>

\* The while condition is evaluated on the page.
LoopTest ==
    /\ scroll.pc = "test"
    /\ IF NotAtBottom(scroll.scrollY, scroll.scrollHeight)
       THEN scroll' = [scroll EXCEPT !.pc = "scrollBy"]
       ELSE scroll' = [scroll EXCEPT !.pc = "top",
                                     !.exit = [scrollY |-> scroll.scrollY,
                                               scrollHeight |-> scroll.scrollHeight]]
    /\ last' = "test"
    /\ UNCHANGED <<req, pat, flatVars, matchVars, waitVars, sessVars, gtm>>

\* scrollBy({ behavior: 'smooth', top: 1.5 * innerHeight }): the window sets
\* out for the position that far down, or for the end of its range.
ScrollBy ==
    /\ scroll.pc = "scrollBy"
    /\ LET by == (3 * InnerHeight) \div 2
           range == MaxScrollY(scroll.layout, scroll.scrollHeight)
       IN  scroll' = [scroll EXCEPT
                         !.pc = "pause", !.by = by,
                         !.target = IF scroll.scrollY + by < range
                                    THEN scroll.scrollY + by
                                    ELSE IF scroll.scrollY < range THEN range
                                    ELSE scroll.scrollY]
    /\ last' = "scrollBy"
    /\ UNCHANGED <<req, pat, flatVars, matchVars, waitVars, sessVars, gtm>>

\* page.waitForTimeout(700): during the pause the smooth scroll moves the
\* window towards its target, all the way or part of it.
Pause ==
    /\ scroll.pc = "pause"
    /\ \E y \in 0..MaxScrollHeight :
           /\ IF scroll.target > scroll.scrollY
              THEN y > scroll.scrollY /\ y <= scroll.target
              ELSE y = scroll.scrollY
           /\ scroll' = [scroll EXCEPT !.pc = "test", !.scrollY = y, !.paused = PauseMs]
    /\ last' = "pause"
    /\ UNCHANGED <<req, pat, flatVars, matchVars, waitVars, sessVars, gtm>>

\* if (returnToTop) scrollTo({ top: 0, behavior: 'smooth' })
ReturnToTop ==
    /\ scroll.pc = "top"
    /\ IF scroll.returnToTop
       THEN scroll' = [scroll EXCEPT !.pc = "wait", !.scrollY = 0,
                                     !.tail = Append(scroll.tail, "scrollTo")]
       ELSE scroll' = [scroll EXCEPT !.pc = "wait"]
    /\ last' = "top"
    /\ UNCHANGED <<req, pat, flatVars, matchVars, waitVars, sessVars, gtm>>

\* if (timeToWaitAfterScroll > 0) page.waitForTimeout(timeToWaitAfterScroll)
WaitAfterScroll ==
    /\ scroll.pc = "wait"
    /\ IF scroll.timeToWaitAfterScroll > 0
       THEN scroll' = [scroll EXCEPT !.pc = "done",
                                     !.tail = Append(scroll.tail, "waitForTimeout")]
       ELSE scroll' = [scroll EXCEPT !.pc = "done"]
    /\ last' = "wait"
    /\ UNCHANGED <<req, pat, flatVars, matchVars, waitVars, sessVars, gtm>>

\* The page loads more content while the call runs: its scroll height
\* grows, never beyond MaxScrollHeight.
LazyLoad ==
    /\ scroll.pc \in {"test", "scrollBy", "pause"}
    /\ scroll.scrollHeight < MaxScrollHeight
    /\ scroll' = [scroll EXCEPT !.scrollHeight = scroll.scrollHeight + 1]
    /\ last' = "lazyLoad"
    /\ UNCHANGED <<req, pat, flatVars, matchVars, waitVars, sessVars, gtm>>

\* The steps scrollToBottom takes once it is called.
ScrollStep == LoopTest \/ ScrollBy \/ Pause \/ ReturnToTop \/ WaitAfterScroll

NextScroll ==
    \/ \E options \in ScrollOptions : ScrollToBottom(options)
    \/ LoopTest
    \/ ScrollBy
    \/ Pause
    \/ ReturnToTop
    \/ WaitAfterScroll
    \/ LazyLoad

\* Every evaluation and timer of the call completes; the page need not load
\* anything more.
SpecScroll == InitScroll /\ [][NextScroll]_vars /\ WF_vars(ScrollStep)

\* ---------------------------------------------- claims: flatRequestUrl

\* The last step was a call of flatRequestUrl on the observed request.
FlatCalled == last = "flatRequestUrl"

HasBody == req.postData # NULL /\ req.postData # <<>>

HasLineBreak(s) == \E i \in 1..Len(s) : s[i] = CR \/ s[i] = LF

HasAmpAmp(s) == \E i \in 1..(Len(s) - 1) : s[i] = AMP /\ s[i + 1] = AMP

EndsWithAmp(s) == s # <<>> /\ s[Len(s)] = AMP

IsPrefix(p, s) == Len(p) <= Len(s) /\ SubSeq(s, 1, Len(p)) = p

\* The separator the claims name: '&' when the URL holds a '?', else '?'.
ExpectedSeparator(url) == IF \E i \in 1..Len(url) : url[i] = QM THEN AMP ELSE QM

\* Number of CR LF pairs of s.
CrLfPairs(s) == Cardinality({i \in 1..(Len(s) - 1) : s[i] = CR /\ s[i + 1] = LF})

\* Number of line-break characters of s.
LineBreakChars(s) == Cardinality({i \in 1..Len(s) : s[i] = CR \/ s[i] = LF})

\* C1: for a request whose body is absent (null) or the empty string,
\* flatRequestUrl returns exactly request.url(), whatever the URL contains.
C1_EmptyBodyIdentity ==
    (FlatCalled /\ ~HasBody) => flatOut = req.url

\* C1 witness: a call on a body-less request whose URL holds a doubled and
\* trailing separator, which normalisation would have changed.
C1_Witness ==
    /\ FlatCalled
    /\ req.postData = NULL
    /\ req.url = <<"a", AMP, AMP>>
    /\ flatOut = <<"a", AMP, AMP>>

\* C2 (as claimed): for a request with a non-empty body the result of
\* flatRequestUrl never contains the doubled separator '&&'.
C2_NoDoubledSeparator ==
    (FlatCalled /\ HasBody) => ~HasAmpAmp(flatOut)

\* C3 (as claimed): for a request with a non-empty body the result of
\* flatRequestUrl never ends with '&'.
C3_NoTrailingSeparator ==
    (FlatCalled /\ HasBody) => ~EndsWithAmp(flatOut)

\* C4 (as claimed): for every request with a non-empty body the result is the
\* original URL, unchanged, then exactly one separator ('&' when the URL holds
\* '?', else '?'), then the body content (its line breaks written as '&').
C4_Original ==
    (FlatCalled /\ HasBody) =>
        flatOut = req.url \o <<ExpectedSeparator(req.url)>>
                          \o ReplaceLineBreaks(req.postData)

\* C4 (amended): for a request with a non-empty body whose URL holds no line
\* break, and for which URL + separator + body (line breaks written as '&')
\* holds no '&&' and does not end with '&', the result is exactly that string:
\* the URL unchanged, one separator ('&' when the URL holds '?', else '?'),
\* the body content.
C4_JoinedByOneSeparator ==
    LET joined == req.url \o <<ExpectedSeparator(req.url)>>
                          \o ReplaceLineBreaks(req.postData)
    IN  (/\ FlatCalled
         /\ HasBody
         /\ ~HasLineBreak(req.url)
         /\ ~HasAmpAmp(joined)
         /\ ~EndsWithAmp(joined)) => flatOut = joined

\* C4 witness: Scenario A, 'a?a' with body 'a' gives 'a?a&a'.
C4_Witness ==
    /\ FlatCalled
    /\ req.url = <<"a", QM, "a">>
    /\ req.postData = <<"a">>
    /\ flatOut = <<"a", QM, "a", AMP, "a">>

\* C5: for a request with a non-empty body the result of flatRequestUrl holds
\* no CR and no LF; the replacement writes one '&' per line break of the
\* joined string, a CR LF pair counting as one break.
C5_NoLineBreaks ==
    (FlatCalled /\ HasBody) =>
        LET joined == FlatUrl(req.url, req.postData)
            broken == ReplaceLineBreaks(joined)
        IN  /\ ~HasLineBreak(flatOut)
            /\ ~HasLineBreak(broken)
            /\ Len(broken) = Len(joined) - CrLfPairs(joined)
            /\ Cardinality({i \in 1..Len(broken) : broken[i] = AMP})
                 = Cardinality({i \in 1..Len(joined) : joined[i] = AMP})
                   + LineBreakChars(joined) - CrLfPairs(joined)

\* C5 witness: Scenario B, 'a' with body 'a CR LF a' gives 'a?a&a'.
C5_Witness ==
    /\ FlatCalled
    /\ req.url = <<"a">>
    /\ req.postData = <<"a", CR, LF, "a">>
    /\ flatOut = <<"a", QM, "a", AMP, "a">>

OccursIn(p, s) ==
    \E i \in 0..Len(s) : i + Len(p) <= Len(s) /\ SubSeq(s, i + 1, i + Len(p)) = p

\* The regular expression R has a match in s: somewhere in s, or, for a
\* sticky R, at the position a fresh R is anchored to.
HasMatch(R, s) ==
    IF R.sticky
    THEN Len(R.source) <= Len(s) /\ SubSeq(s, 1, Len(R.source)) = R.source
    ELSE OccursIn(R.source, s)

\* C7: for a literal-string pattern p, requestMatcher(p)(r) returns true if
\* and only if p occurs as a substring of flatRequestUrl(r).
C7_StringPatternIsSubstring ==
    (last = "requestMatcher" /\ pat.kind = "string") =>
        (matchOut = "true" <=> OccursIn(pat.source, flatRequestUrl(req)))

\* C7 witness: the pattern '&a' spans the join of URL 'a?' and body 'a' and
\* does not occur in the URL; the matcher returned true.
C7_Witness ==
    /\ last = "requestMatcher"
    /\ pat = StringPattern(<<AMP, "a">>)
    /\ req = Request(<<"a", QM>>, <<"a">>)
    /\ matchOut = "true"

\* C8 (as claimed): for a regular-expression pattern p, every call of
\* requestMatcher(p)(r) returns true if and only if p has a match in
\* flatRequestUrl(r).
C8_RegExpPatternSearches ==
    (last = "requestMatcher" /\ pat.kind = "regex") =>
        (matchOut = "true" <=> HasMatch(pat, flatRequestUrl(req)))

\* C9 (as claimed): whenever responseMatcher(p)(s) returns true,
\* requestMatcher(p)(s.request()) evaluated next, with the same pattern
\* object, returns true as well.
C9_MatchersAgree ==
    [][(last = "responseMatcher" /\ matchOut = "true" /\ last' = "requestMatcher")
          => matchOut' = "true"]_vars

\* C10: when the object matches and cb raises an error, requestMatcherCb and
\* responseMatcherCb still return true and the error does not reach the
\* caller of the matcher.
C10_CallbackErrorSwallowed ==
    (last \in {"requestMatcherCb", "responseMatcherCb"} /\ cbRaised) =>
        (matchOut = "true" /\ ~escaped)

\* C10 witness: a matching request, a callback invoked with it that raised,
\* and the matcher returned true.
C10_Witness ==
    /\ last = "requestMatcherCb"
    /\ cbArgs = <<req>>
    /\ cbRaised
    /\ matchOut = "true"
    /\ ~escaped

AsBuilt(pattern) == [pattern EXCEPT !.lastIndex = 0]

\* C26: a matcher returned by requestMatcher(p) or responseMatcher(p) is
\* stateless: whatever calls came before, each call returns what the first
\* call on the pattern as built returns for that request, also when p is a
\* regular expression with the g or y flag.
C26_MatcherStateless ==
    [][/\ last' = "requestMatcher" =>
              matchOut' = JsBool(requestMatcher(AsBuilt(pat), req).value)
       /\ last' = "responseMatcher" =>
              matchOut' = JsBool(responseMatcher(AsBuilt(pat), res).value)]_vars

\* ------------------------------------------------------ claims: waiters

\* The regular expression a waiter builds from its filters.
FilterRegExp(kind, eventName, eventId, pixelId) ==
    IF kind = "wts" THEN WtsRegExp(eventName, eventId)
    ELSE PixelRegExp(pixelId, eventName, eventId)

\* Every request a wait accepts when one of its filters is given some value
\* is accepted by the wait that leaves that filter out.
OmissionWidens(wait, request) ==
    \A v \in ParamValues :
        /\ (/\ wait.eventName = <<>>
            /\ WaitPredicate(FilterRegExp(wait.kind, v, wait.eventId, wait.pixelId),
                             request))
               => WaitPredicate(wait.re, request)
        /\ (/\ wait.eventId = <<>>
            /\ WaitPredicate(FilterRegExp(wait.kind, wait.eventName, v, wait.pixelId),
                             request))
               => WaitPredicate(wait.re, request)
        /\ (/\ wait.kind = "pixel"
            /\ wait.pixelId = <<>>
            /\ WaitPredicate(FilterRegExp(wait.kind, wait.eventName, wait.eventId, v),
                             request))
               => WaitPredicate(wait.re, request)

\* C12: in both waiters an omitted filter (eventName, eventId, pixelId) is a
\* wildcard: a pending wait accepts every request of its endpoint that it
\* would accept had the omitted filter been given the value the request
\* carries.
C12_OmittedFilterIsWildcard ==
    \A w \in WaitIds :
        waits[w].pc = "waiting" =>
            \A request \in Pool : OmissionWidens(waits[w], request)


\* C13: both waiters test their regular expression against the
\* canonicalized URL of each observed request (flatRequestUrl), so a
\* pending wait accepts exactly the requests whose URL merged with the POST
\* body satisfies the expression, wherever the parameters are carried.
C13_TestsCanonicalizedUrl ==
    \A w \in WaitIds :
        waits[w].pc = "waiting" =>
            \A request \in Pool :
                WaitPredicate(waits[w].re, request)
                    <=> SegmentsMatch(waits[w].re, flatRequestUrl(request), 0)


\* The query string of url carries the parameter key with the value v.
ParamIs(url, key, v) ==
    \E i \in 1..Len(url) :
        /\ url[i] \in {QM, AMP}
        /\ i + 2 + Len(v) <= Len(url)
        /\ url[i + 1] = key
        /\ url[i + 2] = EQ
        /\ SubSeq(url, i + 3, i + 2 + Len(v)) = v
        /\ (i + 2 + Len(v) = Len(url) \/ url[i + 3 + Len(v)] = AMP)

\* The query string of url carries no parameter key.
ParamAbsent(url, key) ==
    ~\E i \in 1..(Len(url) - 1) : url[i] \in {QM, AMP} /\ url[i + 1] = key

\* A waitForWebToServer has come to its end on a matched request whose
\* response decoded to a JSON document reporting a delivery count.
DeliveryReported(wait) ==
    /\ wait.kind = "wts"
    /\ wait.pc = "done"
    /\ wait.request # NoRequest
    /\ wait.request.response.state = "json"

\* C14 as stated: a matched request whose decoded response reports
\* events_received = 1 resolves the wait with the decoded payload; any other
\* count fails it with an error carrying the decoded response.
C14_Original ==
    \A w \in WaitIds :
        DeliveryReported(waits[w]) =>
            IF waits[w].request.response.events_received = 1
            THEN /\ waits[w].outcome.status = "resolved"
                 /\ waits[w].outcome.event_data = EventData
            ELSE /\ waits[w].outcome.status = "rejected"
                 /\ waits[w].outcome.errorData = waits[w].request.response

\* C14: when a request matches and its response decodes, the wait whose ed
\* parameter does not decode fails with the decode error whatever the count
\* reported; otherwise events_received = 1 resolves it with the decoded
\* payload, and any other count fails it with the error carrying the
\* decoded response. A count other than 1 never resolves the wait.
C14_DeliveryCountDecides ==
    \A w \in WaitIds :
        DeliveryReported(waits[w]) =>
            LET request == waits[w].request
                outcome == waits[w].outcome
            IN  IF ~ParamIs(request.url, "ed", <<"J">>)
                THEN /\ outcome.status = "rejected"
                     /\ outcome.error \in {"TypeError", "SyntaxError"}
                ELSE IF request.response.events_received = 1
                THEN /\ outcome.status = "resolved"
                     /\ outcome.event_data = EventData
                ELSE /\ outcome.status = "rejected"
                     /\ outcome.error = "Error"
                     /\ outcome.errorData = request.response

C14_Witness ==
    /\ DeliveryReported(waits[1])
    /\ waits[1].request.response.events_received = 2
    /\ waits[1].outcome = Rejected("Error", ResponseOf("json", 2))


\* C15: whenever a server-side tracking call matched and its response
\* reports a delivery count other than 1, waitForWebToServer ends with the
\* delivery-mismatch failure carrying that response, and with nothing else.
C15_MismatchAlwaysSurfaced ==
    \A w \in WaitIds :
        (/\ DeliveryReported(waits[w])
         /\ waits[w].request.response.events_received # 1)
            => waits[w].outcome = Rejected("Error", waits[w].request.response)


\* C16: a waitForWebToServer that resolved returns the matched URL's en and
\* eid parameters as event_name and event_id, the JSON value its ed
\* parameter decodes to as event_data, the decoded body of the response
\* correlated with the matched request as responseBody, and that request's
\* URL as requestUrl.
C16_ResultFromMatchedRequest ==
    \A w \in WaitIds :
        (/\ waits[w].kind = "wts"
         /\ waits[w].outcome.status = "resolved")
            => LET request == waits[w].request
                   outcome == waits[w].outcome
               IN  /\ request \in WtsRequests
                   /\ ParamIs(request.url, "en", outcome.event_name)
                   /\ ParamIs(request.url, "eid", outcome.event_id)
                   /\ ParamIs(request.url, "ed", <<"J">>)
                   /\ outcome.event_data = EventData
                   /\ request.response.state = "json"
                   /\ outcome.responseBody = request.response
                   /\ outcome.requestUrl = request.url

C16_Witness ==
    /\ waits[1].kind = "wts"
    /\ waits[1].pc = "done"
    /\ waits[1].outcome.status = "resolved"
    /\ waits[1].outcome.event_name = <<"p", "p">>
    /\ waits[1].outcome.event_id = <<"p">>
    /\ waits[1].outcome.requestUrl =
           <<WTS, QM, "en", EQ, "p", "p", AMP, "eid", EQ, "p", AMP, "ed", EQ, "J">>


\* C17: waitForFacebookPixel resolves in the step in which a request it
\* accepts is observed, with the matched URL's ev, eid and id parameters as
\* event_name, event_id and pixel_id and that URL as requestUrl; it never
\* awaits or reads the request's response, so the result is a function of
\* the URL alone.
C17_PixelIgnoresResponse ==
    \A w \in WaitIds :
        waits[w].kind = "pixel" =>
            LET request == waits[w].request
                outcome == waits[w].outcome
            IN  /\ waits[w].pc \in {"waiting", "done"}
                /\ request # NoRequest =>
                       /\ request \in PixelRequests
                       /\ waits[w].pc = "done"
                       /\ outcome.status = "resolved"
                       /\ ParamIs(request.url, "ev", outcome.event_name)
                       /\ ParamIs(request.url, "eid", outcome.event_id)
                       /\ ParamIs(request.url, "id", outcome.pixel_id)
                       /\ outcome.requestUrl = request.url
                       /\ outcome.responseBody = NoResponse
                       /\ outcome.event_data = Undefined

C17_Witness ==
    /\ waits[1].kind = "pixel"
    /\ waits[1].outcome.status = "resolved"
    /\ waits[1].request.response.state = "pending"
    /\ waits[1].outcome.pixel_id = <<"p", "p">>
    /\ waits[1].outcome.event_name = <<"p">>
    /\ last = "request"


\* C18: a wait given a timeout that accepts no request by its deadline
\* (timeout ms after the call) fails with the host's TimeoutError, unchanged:
\* a wait with a non-zero timeout is not pending past its deadline, a wait
\* that ended without a request ended with the TimeoutError, the TimeoutError
\* never comes before the deadline, and never to a wait that accepted a
\* request.
C18_TimeoutAtDeadline ==
    \A w \in WaitIds :
        LET wait == waits[w]
        IN  /\ (wait.pc = "waiting" /\ wait.hasTimeout /\ wait.timeout > 0)
                   => now <= wait.start + wait.timeout
            /\ (wait.pc = "done" /\ wait.request = NoRequest)
                   => wait.outcome = Rejected("TimeoutError", NoResponse)
            /\ wait.outcome.error = "TimeoutError"
                   => /\ wait.request = NoRequest
                      /\ wait.hasTimeout => now >= wait.start + wait.timeout

C18_Witness ==
    /\ waits[1].hasTimeout
    /\ waits[1].timeout = 1
    /\ waits[1].outcome = Rejected("TimeoutError", NoResponse)
    /\ now = waits[1].start + 1
    /\ last = "timeout"


\* The wait accepts a request in this step.
Accepts(w) == waits[w].pc = "waiting" /\ waits'[w].request # NoRequest

\* C19: two waits running concurrently on one page share no mutable state:
\* each holds the expression built from its own filters; a step in which
\* one wait accepts a request makes the other pending wait accept the same
\* request exactly when its own expression is satisfied, and leaves it
\* untouched otherwise; every other step of one wait (its call, its
\* response, its timeout) leaves the other wait as it was.
C19_IndependentWaits ==
    [][\A w \in WaitIds :
           LET o == 3 - w
           IN  /\ waits'[w].pc # "idle" =>
                      waits'[w].re = FilterRegExp(waits'[w].kind, waits'[w].eventName,
                                                  waits'[w].eventId, waits'[w].pixelId)
               /\ Accepts(w) =>
                      IF waits[o].pc = "waiting"
                         /\ WaitPredicate(waits[o].re, waits'[w].request)
                      THEN /\ waits'[o].request = waits'[w].request
                           /\ waits'[o] = OnRequest(waits[o], waits'[w].request)
                           /\ waits'[o].pc \in {"response", "done"}
                      ELSE waits'[o] = waits[o]
               /\ (waits'[w] # waits[w] /\ ~Accepts(w) /\ ~Accepts(o)) =>
                      waits'[o] = waits[o]]_vars

C19_Witness ==
    /\ scope = "concurrent"
    /\ sess = NoSession
    /\ waits[1].request = waits[2].request
    /\ waits[1].request # NoRequest
    /\ waits[1].re # waits[2].re
    /\ waits[1].outcome.status = "resolved"
    /\ waits[2].outcome = waits[1].outcome



\* C21: every invocation of a waiter calls page.waitForRequest once and has
\* one outcome: it is pending until it is done, done with either a result or
\* one error and never both, and once it is done nothing about it changes.
C21_OneTerminalOutcome ==
    [][\A w \in WaitIds :
           /\ waits'[w].pc # "idle" => waits'[w].hostCalls = 1
           /\ waits'[w].pc # "done" => waits'[w].outcome = Pending
           /\ waits'[w].pc = "done" =>
                  \/ /\ waits'[w].outcome.status = "resolved"
                     /\ waits'[w].outcome.error = ""
                     /\ waits'[w].request # NoRequest
                  \/ /\ waits'[w].outcome.status = "rejected"
                     /\ waits'[w].outcome.error # ""
                     /\ waits'[w].outcome.requestUrl = <<>>
           /\ waits[w].pc = "done" => waits'[w] = waits[w]]_vars

C21_Witness ==
    /\ waits[1].pc = "done"
    /\ waits[1].outcome = Rejected("TimeoutError", NoResponse)
    /\ waits[1].hostCalls = 1
    /\ now = MaxClock
    /\ last = "timeout"


C23_FiltersHonouredExactly ==
    \A w \in WaitIds :
        waits[w].outcome.status = "resolved" =>
            /\ waits[w].eventName # <<>> =>
                   waits[w].outcome.event_name = waits[w].eventName
            /\ waits[w].eventId # <<>> =>
                   waits[w].outcome.event_id = waits[w].eventId
            /\ (waits[w].kind = "pixel" /\ waits[w].pixelId # <<>>) =>
                   waits[w].outcome.pixel_id = waits[w].pixelId


\* C24: a waitForWebToServer called with a timeout always comes to an end,
\* resolved or failed, also when the request it matched never gets its
\* response or has none.
C24_AlwaysTerminates ==
    \A w \in WaitIds :
        (waits[w].kind = "wts" /\ waits[w].hasTimeout) ~> (waits[w].pc = "done")


\* C25: every timeout the caller passes, 0 included, is handed to
\* page.waitForRequest as its timeout option, and the host's default applies
\* only when the caller passes none.
C25_TimeoutHandedOver ==
    \A w \in WaitIds :
        waits[w].pc # "idle" =>
            /\ waits[w].hostTimeoutGiven <=> waits[w].hasTimeout
            /\ waits[w].hasTimeout => waits[w].hostTimeout = waits[w].timeout

\* ------------------------------------------------------ claims: session

\* C20: after saveSessionCookies(contextA, key) ran with a non-empty jar and
\* the store accepted the write, a later restoreSessionCookies(contextB, key)
\* made before the entry expires and answered by the store with what it
\* holds calls addCookies on contextB with exactly
\* the cookies contextA held at save time, and returns true.
C20_SessionRoundTrip ==
    (/\ last = "restoreSessionCookies"
     /\ sess.answered
     /\ sess.held[sess.key].present)
        => /\ sess.returned = "true"
           /\ sess.added = sess.held[sess.key]
           /\ sess.held[sess.key].cookies # {}
           /\ sess.held[sess.key].cookies \subseteq sess.jars[sess.ctx]

C20_Witness ==
    /\ last = "restoreSessionCookies"
    /\ sess.ctx = "contextB"
    /\ sess.key = "k2"
    /\ sess.returned = "true"
    /\ sess.held["k2"] = Json({Cookie("sid", 2), Cookie("pref", 1)})
    /\ sess.added = Json({Cookie("sid", 2), Cookie("pref", 1)})
    /\ sess.jars["contextA"] = {Cookie("sid", 1)}
    /\ sess.held["k1"] = Json({Cookie("sid", 1)})


\* C27: saveSessionCookies on a context whose jar is empty sends no POST and
\* leaves the store as it was; on a non-empty jar it sends exactly one POST,
\* of {data: cookies, expires} under the key, and no other key of the store
\* changes.
C27_NoWriteOfEmptyJar ==
    [][last' = "saveSessionCookies" =>
           LET cookies == sess.jars[sess'.ctx]
               body == [data |-> Json(cookies), expires |-> sess'.expires]
           IN  IF cookies = {}
               THEN /\ sess'.posts = <<>>
                    /\ sess'.store = sess.store
               ELSE /\ sess'.posts = <<[key |-> sess'.key, body |-> body]>>
                    /\ sess'.store \in {sess.store,
                                        [sess.store EXCEPT ![sess'.key] = body]}]_vars

C27_Witness ==
    /\ last = "saveSessionCookies"
    /\ sess.jars[sess.ctx] = {}
    /\ sess.key = "k1"
    /\ sess.posts = <<>>
    /\ sess.store["k1"].data = Json({Cookie("sid", 1), Cookie("pref", 1)})


\* C28 as stated: restoreSessionCookies returns true exactly when the store
\* returned data for the key and addCookies was called with it; otherwise
\* (the key is absent, or the store request fails) it returns false without
\* raising and leaves the cookies of the context as they were.
C28_Original ==
    [][last' = "restoreSessionCookies" =>
           IF sess'.added.present
           THEN /\ sess'.returned = "true"
                /\ sess'.added = sess.store[sess'.key].data
           ELSE /\ sess'.returned = "false"
                /\ sess'.jars = sess.jars]_vars

\* C28: restoreSessionCookies returns true exactly when the store returned
\* data for the key and addCookies was called with it; it returns false,
\* leaving the cookies of the context as they were, only when the store
\* answered that it holds nothing for the key; when the store request fails
\* it raises that error and leaves the cookies as they were. It never writes
\* to the store.
C28_RestoreOutcome ==
    [][last' = "restoreSessionCookies" =>
           LET data == sess.store[sess'.key].data
           IN  /\ sess'.store = sess.store
               /\ sess'.returned \in {"true", "false", "threw"}
               /\ sess'.returned = "true" <=> sess'.added.present
               /\ sess'.returned = "true" =>
                      /\ data.present
                      /\ sess'.added = data
                      /\ sess'.jars = [sess.jars EXCEPT ![sess'.ctx] =
                                          AddCookies(@, data.cookies)]
               /\ sess'.returned = "false" =>
                      /\ ~data.present
                      /\ sess'.jars = sess.jars
               /\ sess'.returned = "threw" <=> ~sess'.answered
               /\ sess'.returned = "threw" => sess'.jars = sess.jars]_vars

C28_Witness ==
    /\ last = "restoreSessionCookies"
    /\ ~sess.answered
    /\ sess.returned = "threw"
    /\ sess.store[sess.key].data.present
    /\ sess.jars[sess.ctx] = {}

\* ---------------------------------------------------- claims: previewGTM

\* The request asks for gtm.js of the container the Tag Assistant URL names.
ForContainer(url, id) == ScriptOf(url) = GTMJS /\ ParamIs(url, "id", id)

\* The request asks for gtm.js of some other container.
ForOtherContainer(url, id) ==
    /\ ScriptOf(url) = GTMJS
    /\ ~ParamAbsent(url, "id")
    /\ ~ParamIs(url, "id", id)

\* The request carries neither gtm_auth nor gtm_preview.
Plain(url) == ParamAbsent(url, "gtm_auth") /\ ParamAbsent(url, "gtm_preview")

\* C29: once previewGTM has run, a gtm.js request for the container id of
\* the Tag Assistant URL that carries neither gtm_auth nor gtm_preview is
\* continued once, to the URL on its own hostname that carries that id and
\* the gtm_auth and gtm_preview of the Tag Assistant URL; the URL a request
\* is continued to is not matched by the route's pattern; and a request for
\* another container id, or one that carries gtm_auth or gtm_preview, goes
\* out as it is.
C29_RewritesOnlyPlainContainerRequests ==
    last = "route" =>
        /\ (ForContainer(gtm.request, gtm.ta.id) /\ Plain(gtm.request)) =>
               /\ gtm.handled = 1
               /\ gtm.continued = ContinueUrl(Hostname(gtm.request), gtm.ta.id,
                                              gtm.ta.gtm_auth, gtm.ta.gtm_preview)
        /\ gtm.handled = 1 => ~RouteRegExpTest(gtm.containerId, gtm.continued)
        /\ (ForOtherContainer(gtm.request, gtm.ta.id) \/ ~Plain(gtm.request)) =>
               /\ gtm.handled = 0
               /\ gtm.continued = gtm.request

\* ------------------------------------------------ claims: scrollToBottom

\* What scrollToBottom does on the way, whether or not it comes to an end:
\* every iteration scrolls by 1.5 viewport heights and pauses 700 ms, the
\* loop is left only on a condition that read scrollY + innerHeight + 20 >=
\* scrollHeight, and after the loop the page is scrolled to the top exactly
\* when returnToTop is true, before the wait that is made exactly when
\* timeToWaitAfterScroll > 0.
ScrollsInOrder ==
    /\ scroll.pc = "pause" => 2 * scroll.by = 3 * InnerHeight
    /\ last = "pause" => scroll.paused = PauseMs
    /\ scroll.pc \in {"top", "wait", "done"} =>
           scroll.exit.scrollY + InnerHeight + Margin >= scroll.exit.scrollHeight
    /\ scroll.pc \in {"idle", "test", "scrollBy", "pause", "top"} => scroll.tail = <<>>
    /\ scroll.pc \in {"wait", "done"} /\ ~scroll.returnToTop =>
           \A i \in 1..Len(scroll.tail) : scroll.tail[i] # "scrollTo"
    /\ scroll.pc = "wait" =>
           scroll.tail = IF scroll.returnToTop THEN <<"scrollTo">> ELSE <<>>
    /\ scroll.pc = "done" =>
           scroll.tail = (IF scroll.returnToTop THEN <<"scrollTo">> ELSE <<>>)
                         \o (IF scroll.timeToWaitAfterScroll > 0
                             THEN <<"waitForTimeout">> ELSE <<>>)

\* C30: on a page whose scroll height stays bounded scrollToBottom comes to
\* its end; on the way each iteration scrolls by 1.5 viewport heights and
\* pauses 700 ms, the loop is left only when scrollY + innerHeight + 20 >=
\* document.body.scrollHeight, the page is then scrolled to the top if
\* returnToTop is true (the default) and never if it is false, and only
\* after that the call waits timeToWaitAfterScroll ms when that is > 0.
C30_ScrollToBottomTerminates ==
    /\ []ScrollsInOrder
    /\ (scroll.pc = "test") ~> (scroll.pc = "done")

====
